---- MODULE Spec2Model ----
(***************************************************************************)
(* Model of src/app.py: the cached data generator make_data and the        *)
(* filter / smooth / pivot pipeline of the dashboard script.               *)
(*                                                                         *)
(* Numbers are exact: the Gaussian and uniform draws of the pseudo-random  *)
(* generator are quantised to integers, geographic coordinates are in      *)
(* units of 1e-4 degree, and a mean is kept as the pair sum / count.       *)
(* A calendar day is its day number.                                       *)
(***************************************************************************)
EXTENDS Integers, Sequences, FiniteSets, TLC

VARIABLES
    today,        \* wall clock: the current calendar day
    cache,        \* st.cache_data store of make_data: <<seed, days>> -> result
    seed, days,   \* arguments of the latest make_data call
    called,       \* calendar day on which the latest call was made
    hit,          \* TRUE iff the latest call was served from the cache
    df, geo,      \* module-level names bound at line 57
    city_filter, metric, days_back, smooth,   \* sidebar widget values
    cutoff,       \* line 70
    df_view,      \* lines 69-80
    pivot,        \* lines 93-96
    alt_df,       \* lines 123-125
    outcome       \* "none" before the first run, then "ok" or "error"

vars == <<today, cache, seed, days, called, hit, df, geo, city_filter, metric,
          days_back, smooth, cutoff, df_view, pivot, alt_df, outcome>>

----------------------------------------------------------------------------
(* Bounds of the model *)

MaxDays == 9        \* largest day count passed to make_data
MaxTicks == 1       \* calendar-day advances in one behaviour
MaxCached == 1      \* entries the cache may hold
MinWindow == 8      \* smallest "Days to show" (stands for the slider's 14)
MaxWindow == 9      \* largest "Days to show" (stands for the slider's 120)

(* Program constants *)

DefaultSeed == 42
BaseLow == 80
BaseHigh == 200
NoiseSd == 20
TrendSpan == 10
OrdersFloor == 10
RevenueSd == 15
PointsPerCity == 400
JitterSd == 100     \* 0.01 degree, in units of 1e-4 degree
VolumeMean == 100
VolumeSd == 40
RollWindow == 7

Seeds == {DefaultSeed, DefaultSeed + 1}
DayCounts == (0 - 1)..MaxDays
Windows == MinWindow..MaxWindow
Metrics == {"orders", "revenue"}
FirstDay == MaxDays + 1

\* cities, in the insertion order of the dict
CityOrder == <<"Pune", "Mumbai", "Delhi", "Bengaluru">>

Cities == {CityOrder[i] : i \in 1..Len(CityOrder)}

Center(city) ==
    CASE city = "Pune" -> [lat |-> 185204, lon |-> 738567]
      [] city = "Mumbai" -> [lat |-> 190760, lon |-> 728777]
      [] city = "Delhi" -> [lat |-> 286139, lon |-> 772090]
      [] city = "Bengaluru" -> [lat |-> 129716, lon |-> 775946]

Price(city) ==
    CASE city = "Pune" -> 350
      [] city = "Mumbai" -> 420
      [] city = "Delhi" -> 390
      [] city = "Bengaluru" -> 410

\* position of a city name in sorted (alphabetical) order
CityRank(city) ==
    CASE city = "Bengaluru" -> 1
      [] city = "Delhi" -> 2
      [] city = "Mumbai" -> 3
      [] city = "Pune" -> 4

DayName(d) ==
    <<"Monday", "Tuesday", "Wednesday", "Thursday", "Friday", "Saturday",
      "Sunday">>[(d % 7) + 1]

\* a list built element by element (rows.append, a column of values)
List(f) == SubSeq(f, 1, Len(f))

----------------------------------------------------------------------------
(* The pseudo-random generator: a stream fixed by the seed; draw i of the  *)
(* stream is consumed by the i-th scalar the code asks for.                *)

Bits(s, i) == (s * 7919 + i * 2731 + ((i * i) % 9973) * 37) % 65521

\* rng.integers(lo, hi): uniform over lo..hi-1
RngIntegers(s, i, lo, hi) == lo + (Bits(s, i) % (hi - lo))

\* rng.normal(mu, sd): quantised to steps of sd/5 within five deviations
RngNormal(s, i, mu, sd) == mu + ((((Bits(s, i) % 51) - 25) * sd) \div 5)

\* numpy round: nearest integer, ties to the even one; num >= 0, den > 0
RoundHalfEven(num, den) ==
    LET q == num \div den
        r == num % den
    IN  IF 2 * r < den THEN q
        ELSE IF 2 * r > den THEN q + 1
        ELSE IF q % 2 = 0 THEN q ELSE q + 1

\* np.linspace(-10, 10, n)[i-1] added to base + noise, as the fraction
\* num / den
Trended(level, i, n) ==
    IF n = 1 THEN [num |-> level - TrendSpan, den |-> 1]
    ELSE [num |-> (level - TrendSpan) * (n - 1) + 2 * TrendSpan * (i - 1),
          den |-> n - 1]

\* the rounding without the clip
ClipRoundNoFloor(x) == RoundHalfEven(x.num, x.den)

\* np.clip(x, 10, None).round().astype(int)
ClipRound(x) ==
    IF x.num < OrdersFloor * x.den THEN OrdersFloor
    ELSE RoundHalfEven(x.num, x.den)

\* the range starting one day early: end - days
NumDatesOffByOne(d) == IF d > 0 THEN d + 1 ELSE 0

\* number of dates of pd.date_range(end - (days-1), end)
NumDates(d) == IF d > 0 THEN d ELSE 0

\* draws consumed by one city in the first loop
CityDraws(n) == 2 * n + 1

\* base_orders + noise + trend, line 28, before the clip
Unclipped(s, c, i, n) ==
    LET off == (c - 1) * CityDraws(n)
        base_orders == RngIntegers(s, off, BaseLow, BaseHigh)
        noise == RngNormal(s, off + i, 0, NoiseSd)
    IN  Trended(base_orders + noise, i, n)

Orders(s, c, i, n) == ClipRound(Unclipped(s, c, i, n))

Revenue(s, c, i, n) ==
    LET off == (c - 1) * CityDraws(n)
    IN  Orders(s, c, i, n)
          * (Price(CityOrder[c]) + RngNormal(s, off + n + i, 0, RevenueSd))

\* lines 23-41: the long-form table, one row per (city, date), city-major
LongRows(s, d, end) ==
    LET n == NumDates(d)
    IN  List([k \in 1..(Len(CityOrder) * n) |->
            LET c == ((k - 1) \div n) + 1
                i == ((k - 1) % n) + 1
                date == end - (d - 1) + (i - 1)
            IN  [idx |-> k - 1,
                 date |-> date,
                 city |-> CityOrder[c],
                 orders |-> Orders(s, c, i, n),
                 revenue |-> Revenue(s, c, i, n),
                 lat |-> Center(CityOrder[c]).lat,
                 lon |-> Center(CityOrder[c]).lon,
                 weekday |-> DayName(date)]])

Max0(a) == IF a > 0 THEN a ELSE 0

\* lines 43-53: the point cloud, PointsPerCity points per city
GeoRows(s, d) ==
    LET first == Len(CityOrder) * CityDraws(NumDates(d))
    IN  List([k \in 1..(Len(CityOrder) * PointsPerCity) |->
            LET c == ((k - 1) \div PointsPerCity) + 1
                at == first + 3 * (k - 1)
            IN  [city |-> CityOrder[c],
                 lat |-> Center(CityOrder[c]).lat
                           + RngNormal(s, at, 0, JitterSd),
                 lon |-> Center(CityOrder[c]).lon
                           + RngNormal(s, at + 1, 0, JitterSd),
                 volume |-> Max0(RngNormal(s, at + 2, VolumeMean, VolumeSd))]])

\* the body of make_data, lines 11-55, run on calendar day `end`
make_data_body(s, d, end) ==
    [df |-> [columns |-> <<"date", "city", "orders", "revenue", "lat",
                           "lon", "weekday">>,
             rows |-> LongRows(s, d, end)],
     geo |-> [columns |-> <<"city", "lat", "lon", "volume">>,
              rows |-> GeoRows(s, d)]]

\* st.cache_data, line 9: the stored result is looked up by the call's
\* arguments; a miss runs the body and stores its result
make_data(store, s, d, now) ==
    IF <<s, d>> \in DOMAIN store
    THEN [hit |-> TRUE, value |-> store[<<s, d>>], store |-> store]
    ELSE LET fresh == make_data_body(s, d, now)
         IN  [hit |-> FALSE, value |-> fresh,
              store |-> store @@ (<<s, d>> :> fresh)]

----------------------------------------------------------------------------
(* Table operations the script uses.  A frame is [columns, rows]; a row    *)
(* carries its index label idx, which filtering and sorting keep.          *)

EmptyFrame == [columns |-> << >>, rows |-> << >>]

NaT == [isNaT |-> TRUE, day |-> 0]

Timestamp(d) == [isNaT |-> FALSE, day |-> d]

RECURSIVE MaxOf(_)
MaxOf(S) ==
    LET x == CHOOSE y \in S : TRUE
    IN  IF S = {x} THEN x
        ELSE LET m == MaxOf(S \ {x}) IN IF x > m THEN x ELSE m

\* Series.max() of a date column: NaT when the column is empty
SeriesMax(rows) ==
    IF Len(rows) = 0 THEN NaT
    ELSE Timestamp(MaxOf({rows[i].date : i \in 1..Len(rows)}))

\* Timestamp - pd.Timedelta(days=n); NaT stays NaT
MinusDays(ts, n) == IF ts.isNaT THEN NaT ELSE Timestamp(ts.day - n)

\* date >= cutoff; a comparison with NaT is False
NotBefore(date, ts) == ~ts.isNaT /\ date >= ts.day

\* an empty selection read as "no filter"
IsInOrAll(rows, cf) ==
    LET Keep(r) == cf = {} \/ r.city \in cf IN SelectSeq(rows, Keep)

\* df["city"].isin(city_filter), line 69
IsIn(rows, cf) ==
    LET Keep(r) == r.city \in cf IN SelectSeq(rows, Keep)

\* the cutoff one day early: max - days_back
CutoffOffByOne(rows, w) == MinusDays(SeriesMax(rows), w)

\* line 70
Cutoff(rows, w) == MinusDays(SeriesMax(rows), w - 1)

\* line 71
FromCutoff(rows, ts) ==
    LET Keep(r) == NotBefore(r.date, ts) IN SelectSeq(rows, Keep)

\* sorted(df["city"].unique()), line 64: the options of the multiselect
CityOptions(frame) == {frame.rows[i].city : i \in 1..Len(frame.rows)}

\* a raw metric of a row
Value(r, m) == IF m = "orders" THEN r.orders ELSE r.revenue

\* a number as the fraction num / den
Q(v) == [num |-> v, den |-> 1]

EqQ(a, b) == a.num * b.den = b.num * a.den

AddQ(a, b) == [num |-> a.num * b.den + b.num * a.den, den |-> a.den * b.den]

RECURSIVE SumQ(_, _)
SumQ(s, n) == IF n = 1 THEN s[1] ELSE AddQ(SumQ(s, n - 1), s[n])

\* a numeric column of a row, by name
Column(r, name) == IF name = "smoothed" THEN r.smoothed ELSE Q(Value(r, name))

\* sort_values(["city", "date"]), line 77: order by city name, then date;
\* rows with equal keys keep their order
SortValues(rows) ==
    LET n == Len(rows)
        Before(i, j) ==
            \/ CityRank(rows[i].city) < CityRank(rows[j].city)
            \/ /\ rows[i].city = rows[j].city
               /\ \/ rows[i].date < rows[j].date
                  \/ rows[i].date = rows[j].date /\ i < j
        rank ==
            List([i \in 1..n |-> 1 + Cardinality({j \in 1..n : Before(j, i)})])
    IN  List([k \in 1..n |-> rows[CHOOSE i \in 1..n : rank[i] = k]])

RECURSIVE SumSeq(_, _, _)
SumSeq(s, lo, hi) == IF lo > hi THEN 0 ELSE s[hi] + SumSeq(s, lo, hi - 1)

\* s.rolling(7, min_periods=1).mean(), line 79: at position k the mean of
\* the last min(k, 7) values, as sum / count
RollingMean(s) ==
    List([k \in 1..Len(s) |->
        LET lo == IF k > RollWindow THEN k - RollWindow + 1 ELSE 1
        IN  [num |-> SumSeq(s, lo, k), den |-> k - lo + 1]])

\* the transform without the groupby: one group holding every row
GroupAll(rows, city) == rows

\* .groupby("city")[metric]: the rows of one group, in the order given
Group(rows, city) ==
    LET Keep(r) == r.city = city IN SelectSeq(rows, Keep)

\* lines 76-80: the transform's result, a column aligned on the index of
\* rows: entry i belongs to the row labelled rows[i].idx
Smoothed(rows, m) ==
    LET sorted == SortValues(rows)
    IN  List([i \in 1..Len(rows) |->
            LET g == Group(sorted, rows[i].city)
                k == CHOOSE j \in 1..Len(g) : g[j].idx = rows[i].idx
                s == List([j \in 1..Len(g) |-> Value(g[j], m)])
            IN  RollingMean(s)[k]])

\* df_view["smoothed"] = ..., line 75: a new column on df_view
WithSmoothed(frame, col) ==
    [columns |-> Append(frame.columns, "smoothed"),
     rows |-> List([i \in 1..Len(frame.rows) |->
                 LET r == frame.rows[i]
                 IN  [idx |-> r.idx, date |-> r.date, city |-> r.city,
                      orders |-> r.orders, revenue |-> r.revenue,
                      lat |-> r.lat, lon |-> r.lon, weekday |-> r.weekday,
                      smoothed |-> col[i]]])]

\* the assignment when df_view is df itself, not a copy
AssignSmoothedInPlace(ns, col) ==
    [ns EXCEPT !.df_view = WithSmoothed(ns.df_view, col),
               !.df = WithSmoothed(ns.df_view, col)]

\* the names df and df_view after the assignment of line 75: df_view is a
\* copy (line 69), so df is left alone
AssignSmoothed(ns, col) ==
    [ns EXCEPT !.df_view = WithSmoothed(ns.df_view, col)]

RECURSIVE SortedDates(_)
SortedDates(S) ==
    IF S = {} THEN << >>
    ELSE LET m == MaxOf(S) IN Append(SortedDates(S \ {m}), m)

SortedCities(S) ==
    LET Keep(c) == c \in S
    IN  SelectSeq(<<"Bengaluru", "Delhi", "Mumbai", "Pune">>, Keep)

NaN == [isNaN |-> TRUE, val |-> Q(0)]

\* the pivot reading the smoothed column when there is one
PivotValuesSmoothed(m, sm) == IF sm THEN "smoothed" ELSE m

\* the column the pivot aggregates, line 94: values=metric
PivotValues(m, sm) == m

\* pivot_table(index="date", columns="city", values=..., aggfunc="sum")
\* .sort_index(), lines 93-96
PivotTable(frame, column) ==
    LET rows == frame.rows
        dates == {rows[i].date : i \in 1..Len(rows)}
        cities == {rows[i].city : i \in 1..Len(rows)}
        Cell(d, c) ==
            LET Keep(r) == r.date = d /\ r.city = c
                hits == SelectSeq(rows, Keep)
                vals == List([i \in 1..Len(hits) |-> Column(hits[i], column)])
            IN  IF Len(hits) = 0 THEN NaN
                ELSE [isNaN |-> FALSE, val |-> SumQ(vals, Len(vals))]
    IN  [index |-> SortedDates(dates),
         columns |-> SortedCities(cities),
         cells |-> [p \in dates \X cities |-> Cell(p[1], p[2])]]

EmptyPivot == [index |-> << >>, columns |-> << >>, cells |-> << >>]

\* df_view.assign(value=...), lines 123-125
AssignValue(frame, m, sm) ==
    [columns |-> Append(frame.columns, "value"),
     rows |-> List([i \in 1..Len(frame.rows) |->
                 LET r == frame.rows[i]
                     v == Column(r, IF sm THEN "smoothed" ELSE m)
                 IN  IF sm
                     THEN [idx |-> r.idx, date |-> r.date, city |-> r.city,
                           orders |-> r.orders, revenue |-> r.revenue,
                           lat |-> r.lat, lon |-> r.lon,
                           weekday |-> r.weekday, smoothed |-> r.smoothed,
                           value |-> v]
                     ELSE [idx |-> r.idx, date |-> r.date, city |-> r.city,
                           orders |-> r.orders, revenue |-> r.revenue,
                           lat |-> r.lat, lon |-> r.lon,
                           weekday |-> r.weekday, value |-> v]])]

\* lines 69-96 and 123-125 on the table bound at line 57
Shape(table, cf, m, w, sm) ==
    LET picked == IsIn(table.rows, cf)
        ts == Cutoff(picked, w)
        copy == [df |-> table,
                 df_view |-> [columns |-> table.columns,
                              rows |-> FromCutoff(picked, ts)]]
        ns == IF sm
              THEN AssignSmoothed(copy, Smoothed(copy.df_view.rows, m))
              ELSE copy
    IN  [df |-> ns.df,
         cutoff |-> ts,
         df_view |-> ns.df_view,
         pivot |-> PivotTable(ns.df_view, PivotValues(m, sm)),
         alt_df |-> AssignValue(ns.df_view, m, sm)]

----------------------------------------------------------------------------
(* The state machine *)

Init ==
    /\ today = FirstDay
    /\ cache = << >>
    /\ seed = DefaultSeed
    /\ days = 0
    /\ called = FirstDay
    /\ hit = FALSE
    /\ df = EmptyFrame
    /\ geo = EmptyFrame
    /\ city_filter = {}
    /\ metric = "revenue"
    /\ days_back = MinWindow
    /\ smooth = FALSE
    /\ cutoff = NaT
    /\ df_view = EmptyFrame
    /\ pivot = EmptyPivot
    /\ alt_df = EmptyFrame
    /\ outcome = "none"

\* the wall clock passes midnight
Tick ==
    /\ today < FirstDay + MaxTicks
    /\ today' = today + 1
    /\ UNCHANGED <<cache, seed, days, called, hit, df, geo, city_filter, metric,
                   days_back, smooth, cutoff, df_view, pivot, alt_df, outcome>>

\* st.sidebar.multiselect, line 64: only cities present in df are offered
Multiselect(options, picked) == picked \cap options

\* one run of the script: line 57, then the widgets and the pipeline; the
\* widget values are drawn from the given sets
Script(s, d, Picks, Ms, Ws, Smooths) ==
    /\ <<s, d>> \in DOMAIN cache \/ Cardinality(DOMAIN cache) < MaxCached
    /\ \E call \in {make_data(cache, s, d, today)} :
       \E picked \in Picks, m \in Ms, w \in Ws, sm \in Smooths :
       \E cf \in {Multiselect(CityOptions(call.value.df), picked)} :
       \E out \in {Shape(call.value.df, cf, m, w, sm)} :
           /\ cache' = call.store
           /\ seed' = s
           /\ days' = d
           /\ called' = today
           /\ hit' = call.hit
           /\ df' = out.df
           /\ geo' = call.value.geo
           /\ city_filter' = cf
           /\ metric' = m
           /\ days_back' = w
           /\ smooth' = sm
           /\ cutoff' = out.cutoff
           /\ df_view' = out.df_view
           /\ pivot' = out.pivot
           /\ alt_df' = out.alt_df
           /\ outcome' = "ok"
           /\ UNCHANGED today

\* the generator called with any arguments, the widgets at their defaults
RunDefaults ==
    \E s \in Seeds, d \in DayCounts :
        Script(s, d, {Cities}, {"revenue"}, {MinWindow}, {FALSE})

\* the generator called with one configuration, the widgets set freely
RunView ==
    Script(DefaultSeed, MaxDays, SUBSET Cities, Metrics, Windows, BOOLEAN)

Next == Tick \/ RunDefaults

Spec == Init /\ [][Next]_vars

NextView == RunView

SpecView == Init /\ [][NextView]_vars

----------------------------------------------------------------------------
(* Properties *)

Ran == outcome # "none"

HasColumn(frame, name) == \E i \in 1..Len(frame.columns) : frame.columns[i] = name

RECURSIVE SumOver(_, _, _)
SumOver(S, rows, m) ==
    IF S = {} THEN 0
    ELSE LET j == CHOOSE x \in S : TRUE
         IN  Value(rows[j], m) + SumOver(S \ {j}, rows, m)

\* the rows of `city` dated no later than `date`
UpTo(rows, city, date) ==
    {j \in 1..Len(rows) : rows[j].city = city /\ rows[j].date <= date}

\* among them, the rows of the last n dates
LastDates(rows, own, n) ==
    {j \in own :
        Cardinality({l \in own : rows[l].date > rows[j].date}) < n}

Min(a, b) == IF a < b THEN a ELSE b

\* the mean of metric m over the last min(k, 7) dates of `city` up to `date`
TrailingMean(rows, city, date, m) ==
    LET own == UpTo(rows, city, date)
        n == Min(Cardinality(own), RollWindow)
    IN  [num |-> SumOver(LastDates(rows, own, n), rows, m), den |-> n]

\* C1: a call is served from the cache only if the cached result was
\* generated with the same seed and days on the current calendar day, so
\* the returned table's last date is the current calendar day.
C1_CacheKeyedByDate ==
    Ran =>
        /\ hit => [df |-> df, geo |-> geo] = make_data_body(seed, days, called)
        /\ days >= 1 => SeriesMax(df.rows) = Timestamp(called)

FilteredMax == MaxOf({df.rows[i].date : i \in {j \in 1..Len(df.rows) :
                                                df.rows[j].city \in city_filter}})

\* C3: for a non-empty selection E and window w the pivot has exactly one
\* column per city of E, at most w rows, strictly ascending dates, every
\* date within max - (w-1) .. max, max being the latest date of E's records.
C3_PivotShape ==
    (Ran /\ city_filter # {}) =>
        /\ Len(pivot.columns) = Cardinality(city_filter)
        /\ {pivot.columns[i] : i \in 1..Len(pivot.columns)} = city_filter
        /\ Len(pivot.index) <= days_back
        /\ \A i \in 1..(Len(pivot.index) - 1) :
              pivot.index[i] < pivot.index[i + 1]
        /\ \A i \in 1..Len(pivot.index) :
              /\ FilteredMax - (days_back - 1) <= pivot.index[i]
              /\ pivot.index[i] <= FilteredMax

\* a proper selection whose window cuts the table: exactly w rows remain
C3_Witness ==
    /\ Ran
    /\ city_filter # {} /\ city_filter # Cities
    /\ days_back < days
    /\ Len(pivot.index) = days_back

\* the position of a row's date among its city's dates in the view
DayIndex(rows, r) == Cardinality(UpTo(rows, r.city, r.date))

\* C4: with smoothing on, the smoothed value of a city's k-th date is the
\* mean of the raw metric over that city's last min(k, 7) dates: the raw
\* value on the first day, never missing, other cities never entering.
C4_RollingMean ==
    (Ran /\ smooth) =>
        \A i \in 1..Len(df_view.rows) :
            LET r == df_view.rows[i]
                k == DayIndex(df_view.rows, r)
                mean == TrailingMean(df_view.rows, r.city, r.date, metric)
            IN  /\ r.smoothed.den = Min(k, RollWindow)
                /\ mean.den = Min(k, RollWindow)
                /\ r.smoothed.num = mean.num
                /\ k = 1 => EqQ(r.smoothed, Q(Value(r, metric)))

\* several cities smoothed, one of them past its seventh day
C4_Witness ==
    /\ Ran /\ smooth
    /\ Cardinality(city_filter) >= 2
    /\ \E i \in 1..Len(df_view.rows) :
          /\ DayIndex(df_view.rows, df_view.rows[i]) > RollWindow
          /\ ~EqQ(df_view.rows[i].smoothed,
                  Q(Value(df_view.rows[i], metric)))

\* C5: every orders value of the generated table is an integer >= 10.
C5_OrdersFloor ==
    \A i \in 1..Len(df.rows) :
        df.rows[i].orders \in Int /\ df.rows[i].orders >= OrdersFloor

\* a table holding a value the clip raised to the floor
C5_Witness ==
    /\ Ran /\ days >= 1
    /\ \E c \in 1..Len(CityOrder), i \in 1..days :
          LET x == Unclipped(seed, c, i, days)
          IN  /\ x.num < OrdersFloor * x.den
              /\ df.rows[(c - 1) * days + i].orders = OrdersFloor

\* C6: for a positive day count the table has |cities| x days rows, exactly
\* one per (city, date) over the days consecutive dates ending at the
\* generation day, and the point cloud has 400 rows for each city.
C6_Coverage ==
    (Ran /\ days >= 1) =>
        LET end == SeriesMax(df.rows).day
        IN  /\ Len(df.rows) = Cardinality(Cities) * days
            /\ ~hit => end = called
            /\ \A c \in Cities, d \in (end - days + 1)..end :
                  Cardinality({i \in 1..Len(df.rows) :
                      df.rows[i].city = c /\ df.rows[i].date = d}) = 1
            /\ Len(geo.rows) = Cardinality(Cities) * PointsPerCity
            /\ \A c \in Cities :
                  Cardinality({i \in 1..Len(geo.rows) : geo.rows[i].city = c})
                      = PointsPerCity

\* a freshly generated table of several days
C6_Witness == Ran /\ ~hit /\ days >= 2 /\ Len(df.rows) = 4 * days

\* C7: an empty selection yields an empty pivot (no columns, no rows) with
\* no error, whatever the metric, the window and the smoothing flag.
C7_EmptySelection ==
    (Ran /\ city_filter = {}) =>
        /\ outcome = "ok"
        /\ cutoff = NaT
        /\ df_view.rows = << >>
        /\ pivot.columns = << >>
        /\ pivot.index = << >>
        /\ DOMAIN pivot.cells = {}
        /\ alt_df.rows = << >>

\* an empty selection on a non-empty table, smoothing on
C7_Witness ==
    /\ outcome = "ok" /\ city_filter = {} /\ smooth
    /\ Len(df.rows) > 0
    /\ HasColumn(df_view, "smoothed")

\* C8: make_data called with days <= 0 ends in an error and returns no table.
C8_NonPositiveDaysFail == (Ran /\ days <= 0) => outcome = "error"

\* C9: the output of make_data depends on nothing but (seed, days, current
\* date): every call, cached or not, returns what any other call with the
\* same arguments on the same calendar day returns, a fresh one included.
C9_Deterministic ==
    Ran => /\ df = make_data_body(seed, days, called).df
           /\ geo = make_data_body(seed, days, called).geo

\* C10: the pipeline leaves the generator's output as it was (df and geo are
\* the cached result, which no run changes, and df gets no smoothed column)
\* and keeps no state: the same table and widget values give the same view.
C10_ShaperPure ==
    [][outcome' = "ok" =>
        /\ [df |-> df', geo |-> geo'] = cache'[<<seed', days'>>]
        /\ ~HasColumn(df', "smoothed")
        /\ <<seed', days'>> \in DOMAIN cache =>
              cache'[<<seed', days'>>] = cache[<<seed', days'>>]
        /\ (outcome = "ok" /\ seed' = seed /\ days' = days) =>
              df' = df /\ geo' = geo
        /\ (outcome = "ok" /\ df' = df /\ city_filter' = city_filter
              /\ metric' = metric /\ days_back' = days_back
              /\ smooth' = smooth) =>
              /\ df_view' = df_view
              /\ pivot' = pivot
              /\ alt_df' = alt_df]_vars

\* a smoothed run on a table served from the cache: the view has the
\* smoothed column, the table has not
C10_Witness ==
    /\ outcome = "ok" /\ hit /\ smooth
    /\ Len(df_view.rows) > 0
    /\ HasColumn(df_view, "smoothed")
    /\ ~HasColumn(df, "smoothed")

====
